---- MODULE Spec2Model ----
(***************************************************************************)
(* Bluetooth relay extension (docs/bt-relay-xcratch.js): the connection    *)
(* lifecycle layer built on Web Bluetooth.  The module-scope variables of  *)
(* the script are the variables below; every async function is a task that *)
(* is suspended at the transport promise it awaits (requestDevice,         *)
(* gatt.connect, getPrimaryService/getCharacteristic, startNotifications,  *)
(* writeValue).  An action is one event-loop task: the synchronous code    *)
(* that starts an operation, or the resolution of a transport promise      *)
(* together with the continuation that runs from it up to the next         *)
(* transport await.                                                        *)
(***************************************************************************)
EXTENDS Integers, Sequences, FiniteSets, TLC

\* ---------------------------------------------------------------- bounds
\* Concurrently suspended async operations.
MaxTasks == 2
\* Capacity of the send queue; the script uses 20 (line 28), scaled down.
QUEUE_MAX == 2
\* Longest id list given to bulkCsv.
MaxBulk == 2

\* ------------------------------------------------------------- constants
backoffFloor == 1000
backoffMax == 15000
\* The one non-zero interval passed to setPoll.
PollMs == 1000

\* Devices the chooser of requestDevice can return (device.id).
Devices == {"a", "b"}
\* An id that no device has (bulkCsv / connectById / forgetById input).
StrangerId == "z"
Ids == Devices \cup {StrangerId}
\* null for device / rxChar / txChar.
None == ""

\* Tokens of relayOn / relayOff; readState sends "s".
CmdTokens == {"1", "0"}
\* Payloads of inbound notifications after trim(); "?" is an unrecognized one.
NotifyTexts == {"on", "off", "1", "0", "?"}

\* Error messages (lastError); "" is clearError().
ErrNoDevice == "NoRememberedDevice"
ErrNotConnected == "NotConnected"
ErrDiscovery == "DiscoveryFailed"
ErrConnect == "ConnectFailed"
ErrWrite == "WriteFailed"
ErrUnknownId == "UnknownId"

VARIABLES
  \* module-scope state of the script
  device, rxChar, txChar, connected, connecting, wantReconnect, known,
  lastStateText, lastStateNum, prevStateNum, lastError,
  edgeOn, edgeOff, edgeConnected, edgeDisconnected, prevConnected,
  backoffMs, reconnectTimer, pollIntervalMs, pollTimer, sendQueue,
  \* transport and host
  gatt,       \* device.gatt.connected, per device
  subs,       \* devices whose TX characteristic carries the notification listener
  hidden,     \* document.hidden
  page,       \* "live", "hung" (endless microtask loop) or "unloaded"
  tasks,      \* the suspended async operations, per slot
  wq,         \* slots with a writeValue in flight, in issue order
  clearPending, \* forgetAll awaits disconnectInternal; known.clear() is to come
  \* observer (not program state)
  ev          \* what the last event-loop task did: a set of tags

progVars == <<device, rxChar, txChar, connected, connecting, wantReconnect,
              known, lastStateText, lastStateNum, prevStateNum, lastError,
              edgeOn, edgeOff, edgeConnected, edgeDisconnected, prevConnected,
              backoffMs, reconnectTimer, pollIntervalMs, pollTimer, sendQueue,
              gatt, subs>>
vars == <<progVars, hidden, page, tasks, wq, clearPending, ev>>

\* The state the synchronous code reads and writes, as one record.
G ==
  [device |-> device, rxChar |-> rxChar, txChar |-> txChar,
   connected |-> connected, connecting |-> connecting,
   wantReconnect |-> wantReconnect, known |-> known,
   lastStateText |-> lastStateText, lastStateNum |-> lastStateNum,
   prevStateNum |-> prevStateNum, lastError |-> lastError,
   edgeOn |-> edgeOn, edgeOff |-> edgeOff, edgeConnected |-> edgeConnected,
   edgeDisconnected |-> edgeDisconnected, prevConnected |-> prevConnected,
   backoffMs |-> backoffMs, reconnectTimer |-> reconnectTimer,
   pollIntervalMs |-> pollIntervalMs, pollTimer |-> pollTimer,
   sendQueue |-> sendQueue, gatt |-> gatt, subs |-> subs, ev |-> {}]

\* The next state takes the record's values.
Commit(g) ==
  /\ device' = g.device /\ rxChar' = g.rxChar /\ txChar' = g.txChar
  /\ connected' = g.connected /\ connecting' = g.connecting
  /\ wantReconnect' = g.wantReconnect /\ known' = g.known
  /\ lastStateText' = g.lastStateText /\ lastStateNum' = g.lastStateNum
  /\ prevStateNum' = g.prevStateNum /\ lastError' = g.lastError
  /\ edgeOn' = g.edgeOn /\ edgeOff' = g.edgeOff
  /\ edgeConnected' = g.edgeConnected
  /\ edgeDisconnected' = g.edgeDisconnected
  /\ prevConnected' = g.prevConnected
  /\ backoffMs' = g.backoffMs /\ reconnectTimer' = g.reconnectTimer
  /\ pollIntervalMs' = g.pollIntervalMs /\ pollTimer' = g.pollTimer
  /\ sendQueue' = g.sendQueue /\ gatt' = g.gatt /\ subs' = g.subs
  /\ ev' = g.ev

Tag(g, t) == [g EXCEPT !.ev = @ \cup {t}]
Min(a, b) == IF a < b THEN a ELSE b

\* ------------------------------------------------- synchronous helpers
setError(g, e) == [g EXCEPT !.lastError = e]
clearError(g) == [g EXCEPT !.lastError = ""]

stopPolling(g) == [g EXCEPT !.pollTimer = FALSE]
\* startPolling that does not test `connected`.
startPollingAnyLink(g) ==
  LET g1 == stopPolling(g)
  IN IF g1.pollIntervalMs > 0 THEN [g1 EXCEPT !.pollTimer = TRUE] ELSE g1
startPolling(g) ==
  LET g1 == stopPolling(g)
  IN IF g1.pollIntervalMs > 0 /\ g1.connected
       THEN [g1 EXCEPT !.pollTimer = TRUE] ELSE g1

stopReconnectTimer(g) == [g EXCEPT !.reconnectTimer = FALSE]
\* scheduleReconnect that does not test wantReconnect.
scheduleReconnectAlways(g) == [g EXCEPT !.reconnectTimer = TRUE]
scheduleReconnect(g) ==
  IF ~g.wantReconnect \/ g.reconnectTimer THEN g
  ELSE [g EXCEPT !.reconnectTimer = TRUE]

\* handleDisconnected raising the edge whether or not the link was connected.
handleDisconnectedEdgeAlways(g) ==
  LET g1 == [g EXCEPT !.connected = FALSE, !.edgeDisconnected = TRUE,
                      !.prevConnected = FALSE]
      g2 == stopPolling(g1)
  IN IF g2.wantReconnect THEN scheduleReconnect(g2) ELSE g2
\* The 'gattserverdisconnected' listener that attachDevice puts on a device.
handleDisconnected(g) ==
  LET g1 == IF g.connected
              THEN [g EXCEPT !.connected = FALSE, !.edgeDisconnected = TRUE,
                             !.prevConnected = FALSE]
              ELSE g
      g2 == stopPolling(g1)
  IN IF g2.wantReconnect THEN scheduleReconnect(g2) ELSE g2

\* device.gatt.disconnect() when device.gatt.connected: the session ends and
\* the device fires 'gattserverdisconnected' at its listener.
gattDisconnect(g) ==
  IF g.device # None /\ g.gatt[g.device]
    THEN handleDisconnected([g EXCEPT !.gatt[g.device] = FALSE,
                                      !.subs = @ \ {g.device}])
    ELSE g

\* disconnectInternal whose forget branch leaves the state record as it is.
disconnectInternalKeepState(g, forget) ==
  LET g1 == gattDisconnect(g)
      g2 == [g1 EXCEPT !.rxChar = None, !.txChar = None]
      g3 == IF g2.connected
              THEN [g2 EXCEPT !.connected = FALSE, !.edgeDisconnected = TRUE,
                              !.prevConnected = FALSE]
              ELSE g2
      g4 == stopPolling([g3 EXCEPT !.connecting = FALSE])
  IN IF forget /\ g4.device # None
       THEN [g4 EXCEPT !.known = @ \ {g4.device}, !.device = None]
       ELSE g4

disconnectInternal(g, forget) ==
  LET g1 == gattDisconnect(g)
      g2 == [g1 EXCEPT !.rxChar = None, !.txChar = None]
      g3 == IF g2.connected
              THEN [g2 EXCEPT !.connected = FALSE, !.edgeDisconnected = TRUE,
                              !.prevConnected = FALSE]
              ELSE g2
      g4 == stopPolling([g3 EXCEPT !.connecting = FALSE])
  IN IF forget /\ g4.device # None
       THEN [g4 EXCEPT !.known = @ \ {g4.device}, !.device = None,
                       !.prevStateNum = 0, !.lastStateNum = 0,
                       !.lastStateText = ""]
       ELSE g4

\* updateStateFromText raising the flags on the level, not on the change.
updateStateFromTextLevel(g, v) ==
  LET before == g.lastStateNum
      num == IF v \in {"on", "1"} THEN 1
             ELSE IF v \in {"off", "0"} THEN 0 ELSE before
      g1 == [g EXCEPT !.lastStateText = v, !.lastStateNum = num]
      g2 == IF num = 1 THEN [g1 EXCEPT !.edgeOn = TRUE] ELSE g1
      g3 == IF num = 0 THEN [g2 EXCEPT !.edgeOff = TRUE] ELSE g2
  IN [g3 EXCEPT !.prevStateNum = num]

updateStateFromText(g, v) ==
  LET before == g.lastStateNum
      num == IF v \in {"on", "1"} THEN 1
             ELSE IF v \in {"off", "0"} THEN 0 ELSE before
      g1 == [g EXCEPT !.lastStateText = v, !.lastStateNum = num]
      g2 == IF before = 0 /\ num = 1 THEN [g1 EXCEPT !.edgeOn = TRUE] ELSE g1
      g3 == IF before = 1 /\ num = 0 THEN [g2 EXCEPT !.edgeOff = TRUE] ELSE g2
  IN [g3 EXCEPT !.prevStateNum = num]

rememberDevice(g, d) == [g EXCEPT !.known = @ \cup {d}]
attachDevice(g, d) == rememberDevice([g EXCEPT !.device = d], d)
findById(g, id) == IF id \in g.known THEN id ELSE None

\* sendAscii up to its await: the token is queued, the call throws, or
\* rxChar.writeValue is issued on the characteristic rxChar holds.
\* The queue step evicting the newest token (pop) where the script evicts the
\* oldest (shift).
sendAsciiQueuePop(q, str) ==
  Append(IF Len(q) >= QUEUE_MAX THEN SubSeq(q, 1, Len(q) - 1) ELSE q, str)
sendAsciiQueue(q, str) ==
  Append(IF Len(q) >= QUEUE_MAX THEN Tail(q) ELSE q, str)
\* sendAscii that queues the token whether or not auto-reconnect is wanted.
sendAsciiQueueAlways(g, str) ==
  IF ~g.connected \/ g.rxChar = None
    THEN [g |-> scheduleReconnect(
                  [g EXCEPT !.sendQueue = sendAsciiQueue(@, str)]),
          out |-> "queued"]
    ELSE [g |-> g, out |-> "write"]
sendAscii(g, str) ==
  IF ~g.connected \/ g.rxChar = None
    THEN IF g.wantReconnect
           THEN [g |-> scheduleReconnect(
                         [(IF Len(g.sendQueue) >= QUEUE_MAX
                             THEN Tag(g, "sendAscii:shift") ELSE g)
                            EXCEPT !.sendQueue = sendAsciiQueue(@, str)]),
                 out |-> "queued"]
           ELSE [g |-> g, out |-> "throw"]
    ELSE [g |-> g, out |-> "write"]

\* ------------------------------------------------------------- tasks
Slots == 1..MaxTasks
NoTask == [op |-> "none", pc |-> "-", via |-> "-", dev |-> None, tok |-> "",
           drain |-> FALSE, ids |-> << >>, act |-> "", fb |-> FALSE,
           lost |-> FALSE, failed |-> None]
\* Results of running a task's code up to its next transport await.
Res(g, t) == [g |-> g, t |-> t, hang |-> FALSE]
Hang(g) == [g |-> g, t |-> NoTask, hang |-> TRUE]
Done(g) == Res(g, NoTask)

\* bulkCsv's action argument and the token connectSendById sends for it.
BulkActs == {"OFF", "READ"}
ActToken(act) ==
  CASE act = "ON" -> "1" [] act = "OFF" -> "0" [] act = "TOGGLE" -> "t"
    [] OTHER -> "s"
\* The message bulkCsv records for a failing id.
IdErr(id) == "ID " \o id

\* The task is suspended at rxChar.writeValue(data).
IssueWrite(g, t, s, drain) ==
  Res(g, [t EXCEPT !.pc = "write", !.dev = g.rxChar, !.tok = s, !.drain = drain])

RECURSIVE bulkLoop(_, _), FailOp(_, _, _)

\* connectSendById from its switch on.
bulkAction(g, t) ==
  LET r == sendAscii(g, ActToken(t.act))
  IN CASE r.out = "write" -> IssueWrite(r.g, t, ActToken(t.act), FALSE)
       [] r.out = "queued" -> bulkLoop(r.g, [t EXCEPT !.ids = Tail(@)])
       [] OTHER -> FailOp(g, t, ErrNotConnected)

\* connectSendById(id, action) for the first id of t.ids, up to its await.
connectSendById(g, t) ==
  LET dev == findById(g, Head(t.ids))
      g1 == IF g.device = None \/ g.device # dev
              THEN [g EXCEPT !.device = dev] ELSE g
  IN IF dev = None THEN FailOp(g, t, ErrUnknownId)
     ELSE IF ~g1.gatt[g1.device]
       THEN Res(g1, [t EXCEPT !.pc = "connect", !.via = "csb",
                              !.dev = g1.device])
       ELSE bulkAction(g1, t)

\* The for loop of bulkCsv over the ids left.  t.failed is the id of the last
\* failure the loop caught; bulkCsv returns when the list is exhausted.
bulkLoop(g, t) ==
  IF t.ids = << >>
    THEN Done(IF t.failed # None THEN Tag(g, "bulkCsv:failed:" \o t.failed)
              ELSE g)
    ELSE connectSendById(g, [t EXCEPT !.via = "-"])

\* requestAndConnect up to its first await (navigator.bluetooth.requestDevice).
requestAndConnect(g, t) ==
  Res(g, [t EXCEPT !.pc = "scan", !.via = "rac", !.dev = None])

\* An exception e leaves the awaited chain of task t: reconnect's finally,
\* then the catch of the operation that started it.
FailOp(g, t, e) ==
  LET g1 == IF t.via = "rec" THEN [g EXCEPT !.connecting = FALSE] ELSE g
  IN CASE t.op = "timer" ->
            Done(scheduleReconnect(
                   [setError(g1, e) EXCEPT
                      !.backoffMs = Min(@ * 2, backoffMax)]))
       [] t.op = "btnConnect" ->
            Done(scheduleReconnect(setError(g1, e)))
       [] t.op = "connectById" ->
            IF t.fb THEN Done(setError(g1, e))
            ELSE requestAndConnect(setError(g1, e), [t EXCEPT !.fb = TRUE])
       [] t.op = "bulk" ->
            bulkLoop(setError(g1, IdErr(Head(t.ids))),
                     [t EXCEPT !.ids = Tail(@), !.failed = Head(t.ids)])
       [] OTHER -> Done(setError(g1, e))

\* What follows 'await onConnected()' in the caller.
afterOnConnected(g, t) ==
  CASE t.via = "rec" -> Done([g EXCEPT !.connecting = FALSE])
    [] t.via = "csb" -> bulkAction(g, t)
    [] OTHER -> Done(g)

\* The while loop of onConnected from its test on.
drainLoop(g, t) ==
  IF g.sendQueue # << >> /\ g.connected
    THEN LET s == Head(g.sendQueue)
             g1 == [g EXCEPT !.sendQueue = Tail(@)]
             r == sendAscii(g1, s)
         IN CASE r.out = "write" -> IssueWrite(r.g, t, s, TRUE)
              \* shift, push back, test again: the loop never leaves
              [] r.out = "queued" -> Hang(r.g)
              [] OTHER -> afterOnConnected(setError(g1, ErrNotConnected), t)
    ELSE afterOnConnected(g, t)

\* onConnected that leaves backoffMs as it is.
onConnectedKeepBackoff(g, t) ==
  LET g1 == clearError([g EXCEPT !.connected = TRUE, !.connecting = FALSE])
      g2 == IF ~g1.prevConnected
              THEN [g1 EXCEPT !.edgeConnected = TRUE, !.prevConnected = TRUE]
              ELSE g1
  IN drainLoop(startPolling(g2), t)

onConnected(g, t) ==
  LET g1 == clearError([g EXCEPT !.connected = TRUE, !.connecting = FALSE,
                                 !.backoffMs = backoffFloor])
      g2 == IF ~g1.prevConnected
              THEN [g1 EXCEPT !.edgeConnected = TRUE, !.prevConnected = TRUE]
              ELSE g1
  IN drainLoop(startPolling(g2), t)

\* reconnect() that does not test `connecting`.
reconnectNoFlag(g, t) ==
  IF g.device = None THEN FailOp(g, t, ErrNoDevice)
  ELSE IF g.gatt[g.device] THEN Done(Tag(g, "reconnect:return"))
  ELSE Res(Tag([g EXCEPT !.connecting = TRUE], "reconnect:connect"),
           [t EXCEPT !.pc = "connect", !.via = "rec", !.dev = g.device])

\* reconnect() up to its await, called by task t.
reconnect(g, t) ==
  IF g.device = None THEN FailOp(g, t, ErrNoDevice)
  ELSE IF g.connecting \/ g.gatt[g.device]
    THEN Done(Tag(g, "reconnect:return"))
  ELSE Res(Tag([g EXCEPT !.connecting = TRUE], "reconnect:connect"),
           [t EXCEPT !.pc = "connect", !.via = "rec", !.dev = g.device])

\* ------------------------------------------------------------- actions
Init ==
  /\ device = None /\ rxChar = None /\ txChar = None
  /\ connected = FALSE /\ connecting = FALSE /\ wantReconnect = FALSE
  /\ known = {}
  /\ lastStateText = "" /\ lastStateNum = 0 /\ prevStateNum = 0
  /\ lastError = ""
  /\ edgeOn = FALSE /\ edgeOff = FALSE
  /\ edgeConnected = FALSE /\ edgeDisconnected = FALSE
  /\ prevConnected = FALSE
  /\ backoffMs = backoffFloor /\ reconnectTimer = FALSE
  /\ pollIntervalMs = 0 /\ pollTimer = FALSE
  /\ sendQueue = << >>
  /\ gatt = [d \in Devices |-> FALSE] /\ subs = {}
  /\ hidden = FALSE /\ page = "live"
  /\ tasks = [i \in Slots |-> NoTask] /\ wq = << >>
  /\ clearPending = FALSE
  /\ ev = {}

Free(i) == tasks[i] = NoTask /\ \A j \in Slots : j < i => tasks[j] # NoTask
\* A microtask is pending (forgetAll between disconnectInternal and
\* known.clear()): no timer, transport or host event runs before it.
Gap == clearPending
User == page = "live"
Env == page = "live" /\ ~Gap

WithoutSlot(q, i) == SelectSeq(q, LAMBDA j : j # i)
\* The sessions that end in a step to g.  A GATT promise pending on a session
\* that ends can only reject (the platform rejects it even if the device is
\* connected again later).
Ended(g) == {d \in Devices : gatt[d] /\ ~g.gatt[d]}
Stale(ts, g) ==
  [i \in Slots |->
     IF ts[i].pc \in {"rx", "tx", "notify", "write"} /\ ts[i].dev \in Ended(g)
       THEN [ts[i] EXCEPT !.lost = TRUE] ELSE ts[i]]
\* Slot i holds what is left of the task after this step.
Finish(i, r) ==
  /\ tasks' = Stale([tasks EXCEPT ![i] = [r.t EXCEPT !.lost = FALSE]], r.g)
  /\ wq' = IF r.t.pc = "write" THEN Append(WithoutSlot(wq, i), i)
            ELSE WithoutSlot(wq, i)
  /\ page' = IF r.hang THEN "hung" ELSE page
  /\ Commit(r.g)
  /\ UNCHANGED <<hidden, clearPending>>
\* A new operation: it takes the first free slot if it is left suspended.
Start(r) ==
  IF r.t = NoTask
    THEN /\ Commit(r.g) /\ page' = IF r.hang THEN "hung" ELSE page
         /\ tasks' = Stale(tasks, r.g)
         /\ UNCHANGED <<wq, hidden, clearPending>>
    ELSE \E i \in Slots : Free(i) /\ Finish(i, r)
\* Synchronous code that suspends nothing.
Sync(g) ==
  /\ Commit(g) /\ tasks' = Stale(tasks, g)
  /\ UNCHANGED <<wq, hidden, page, clearPending>>
NewTask(op) == [NoTask EXCEPT !.op = op]

\* ---- the blocks (Command Facade)
btnConnect ==
  /\ User
  /\ Start(requestAndConnect(
             stopReconnectTimer([clearError(G) EXCEPT !.wantReconnect = TRUE]),
             NewTask("btnConnect")))

connectById(id) ==
  /\ User
  /\ LET g == stopReconnectTimer(
                [clearError(G) EXCEPT !.wantReconnect = TRUE])
         t == NewTask("connectById")
         dev == findById(g, id)
     IN Start(IF dev = None THEN requestAndConnect(g, t)
              ELSE reconnect([g EXCEPT !.device = dev], t))

disconnectBlock(g, forget) ==
  disconnectInternal(stopReconnectTimer([g EXCEPT !.wantReconnect = FALSE]),
                     forget)
\* disconnect passing forget: true.
disconnectForget == User /\ Sync(disconnectBlock(G, TRUE))
disconnect == User /\ Sync(disconnectBlock(G, FALSE))
forgetCurrent == User /\ Sync(disconnectBlock(G, TRUE))
forgetById(id) ==
  /\ User
  /\ Sync(IF device # None /\ device = id
            THEN Tag(disconnectBlock(G, TRUE), "forgetById:forgetCurrent")
          ELSE [G EXCEPT !.known = @ \ {id}])
\* forgetAll up to 'await disconnectInternal(...)'; known.clear() follows in
\* a microtask, after the blocks the runtime runs in the same step.
forgetAll ==
  /\ User
  /\ Commit(disconnectBlock(G, TRUE))
  /\ tasks' = Stale(tasks, disconnectBlock(G, TRUE))
  /\ clearPending' = TRUE
  /\ UNCHANGED <<wq, hidden, page>>
forgetAllClear ==
  /\ User /\ clearPending
  /\ Commit([G EXCEPT !.known = {}])
  /\ clearPending' = FALSE
  /\ UNCHANGED <<tasks, wq, hidden, page>>

setReconnect(on) ==
  /\ User
  /\ LET g1 == [G EXCEPT !.wantReconnect = on]
         g2 == IF on /\ ~g1.connected THEN scheduleReconnect(g1) ELSE g1
     IN Sync(IF ~on THEN stopReconnectTimer(g2) ELSE g2)

setPoll(ms) ==
  /\ User
  /\ LET g1 == [G EXCEPT !.pollIntervalMs = ms]
     IN Sync(IF g1.connected THEN startPolling(g1) ELSE g1)

\* sendAscii(str) called by an operation that catches with setError; a block
\* rethrows what it caught, the poll callback does not.
sendFrom(g, op, str) ==
  LET r == sendAscii(g, str)
      e == setError(g, ErrNotConnected)
  IN CASE r.out = "write" -> IssueWrite(r.g, NewTask(op), str, FALSE)
       [] r.out = "queued" -> Done(r.g)
       [] OTHER -> Done(IF op = "send" THEN Tag(e, "send:throw") ELSE e)
\* relayOn ("1"), relayOff ("0")
relaySend(str) == User /\ Start(sendFrom(G, "send", str))
clearQueue == User /\ Sync([G EXCEPT !.sendQueue = << >>])

bulkCsv(ids, act) ==
  /\ User
  /\ Start(bulkLoop(clearError(G),
                    [NewTask("bulk") EXCEPT !.ids = ids, !.act = act]))

\* HAT blocks: the value returned is in the tag.
hat(name, flag) == {name \o (IF flag THEN ":T" ELSE ":F")}
whenOn == User /\ Sync([G EXCEPT !.edgeOn = FALSE, !.ev = hat("whenOn", edgeOn)])
whenOff ==
  User /\ Sync([G EXCEPT !.edgeOff = FALSE, !.ev = hat("whenOff", edgeOff)])
\* whenConnected that reports the flag and leaves it set.
whenConnectedKeep ==
  User /\ Sync([G EXCEPT !.ev = hat("whenConnected", edgeConnected)])
whenConnected ==
  User /\ Sync([G EXCEPT !.edgeConnected = FALSE,
                         !.ev = hat("whenConnected", edgeConnected)])
whenDisconnected ==
  User /\ Sync([G EXCEPT !.edgeDisconnected = FALSE,
                         !.ev = hat("whenDisconnected", edgeDisconnected)])

\* ---- timers and host events
\* The callback scheduleReconnect gives to setTimeout.
reconnectTimerFires ==
  /\ Env /\ reconnectTimer
  /\ Start(reconnect([G EXCEPT !.reconnectTimer = FALSE], NewTask("timer")))
\* The callback startPolling gives to setInterval: readState().catch(setError).
pollTick ==
  /\ Env /\ pollTimer
  /\ Start(sendFrom(G, "poll", "s"))

visibilityHidden ==
  /\ Env /\ ~hidden
  /\ hidden' = TRUE
  /\ Commit(stopPolling(G))
  /\ UNCHANGED <<tasks, wq, page, clearPending>>
visibilityVisible ==
  /\ Env /\ hidden
  /\ hidden' = FALSE
  /\ Commit(startPolling(G))
  /\ UNCHANGED <<tasks, wq, page, clearPending>>
beforeUnload ==
  /\ Env
  /\ page' = "unloaded"
  /\ LET g == gattDisconnect(stopPolling(stopReconnectTimer(
                 [G EXCEPT !.wantReconnect = FALSE])))
     IN Commit(g) /\ tasks' = Stale(tasks, g)
  /\ UNCHANGED <<wq, hidden, clearPending>>

\* ---- the transport
\* The link to d is lost: 'gattserverdisconnected' reaches handleDisconnected.
linkDrops(d) ==
  /\ Env /\ gatt[d]
  /\ Sync(handleDisconnected([G EXCEPT !.gatt[d] = FALSE, !.subs = @ \ {d}]))
\* 'characteristicvaluechanged' with payload v (setupGatt's listener).
notification(d, v) ==
  /\ Env /\ d \in subs /\ gatt[d]
  /\ Sync(updateStateFromText(G, v))

\* requestDevice resolves with the device d the user picked.
scanResolves(i, d) ==
  /\ Env /\ tasks[i].pc = "scan"
  /\ Finish(i, Res(attachDevice(G, d),
                   [tasks[i] EXCEPT !.pc = "connect", !.dev = d]))
\* requestDevice and its acceptAllDevices retry both reject.
scanRejects(i) ==
  /\ Env /\ tasks[i].pc = "scan"
  /\ Finish(i, FailOp(G, tasks[i], ErrDiscovery))

\* device.gatt.connect() resolves; setupGatt awaits getPrimaryService and
\* getCharacteristic(NUS_RX_CHAR).
connectResolves(i) ==
  /\ Env /\ tasks[i].pc = "connect"
  /\ Finish(i, Res([G EXCEPT !.gatt[tasks[i].dev] = TRUE],
                   [tasks[i] EXCEPT !.pc = "rx"]))
connectRejects(i) ==
  /\ Env /\ tasks[i].pc = "connect"
  /\ Finish(i, FailOp(G, tasks[i], ErrConnect))

\* setupGatt past each of its awaits; the session must still be live.
setupGattRx(g, t) == Res([g EXCEPT !.rxChar = t.dev], [t EXCEPT !.pc = "tx"])
setupGattTx(g, t) == Res([g EXCEPT !.txChar = t.dev], [t EXCEPT !.pc = "notify"])
\* txChar.addEventListener on the module-scope txChar, then onConnected.
setupGattEnd(g, t) ==
  IF g.txChar = None THEN FailOp(g, t, "TypeError")
  ELSE onConnected([g EXCEPT !.subs = @ \cup {g.txChar}], t)
setupResolves(i) ==
  /\ Env /\ tasks[i].pc \in {"rx", "tx", "notify"}
  /\ gatt[tasks[i].dev] /\ ~tasks[i].lost
  /\ Finish(i, CASE tasks[i].pc = "rx" -> setupGattRx(G, tasks[i])
                  [] tasks[i].pc = "tx" -> setupGattTx(G, tasks[i])
                  [] OTHER -> setupGattEnd(G, tasks[i]))
setupRejects(i) ==
  /\ Env /\ tasks[i].pc \in {"rx", "tx", "notify"}
  /\ Finish(i, FailOp(G, tasks[i], ErrConnect))

\* The code after 'await rxChar.writeValue(data)' in the task that issued it.
afterWrite(g, t) ==
  IF t.drain THEN drainLoop(g, t)
  ELSE IF t.op = "bulk" THEN bulkLoop(g, [t EXCEPT !.ids = Tail(@)])
  ELSE Done(g)
\* The drain loop going on to the next token after a failed write.
afterWriteFailedContinue(g, t) ==
  IF t.drain THEN drainLoop(setError(g, ErrWrite), t)
  ELSE FailOp(g, t, ErrWrite)
afterWriteFailed(g, t) ==
  IF t.drain THEN afterOnConnected(setError(g, ErrWrite), t)
  ELSE FailOp(g, t, ErrWrite)
\* Writes to one device complete in the order they were issued.
OldestWrite(i) ==
  \A k \in 1..Len(wq) :
    tasks[wq[k]].dev = tasks[i].dev =>
      \A l \in 1..Len(wq) : wq[l] = i => l <= k
writeResolves(i) ==
  /\ Env /\ tasks[i].pc = "write" /\ OldestWrite(i)
  /\ gatt[tasks[i].dev] /\ ~tasks[i].lost
  /\ Finish(i, afterWrite(G, tasks[i]))
writeRejects(i) ==
  /\ Env /\ tasks[i].pc = "write"
  /\ Finish(i, afterWriteFailed(G, tasks[i]))

BulkLists ==
  UNION {[1..n -> Ids] : n \in 1..MaxBulk}

Next ==
  \/ btnConnect
  \/ \E id \in Ids : connectById(id)
  \/ disconnect
  \/ forgetCurrent
  \/ \E id \in Ids : forgetById(id)
  \/ forgetAll
  \/ forgetAllClear
  \/ \E on \in BOOLEAN : setReconnect(on)
  \/ \E ms \in {0, PollMs} : setPoll(ms)
  \/ \E str \in CmdTokens : relaySend(str)
  \/ clearQueue
  \/ \E ids \in BulkLists, act \in BulkActs : bulkCsv(ids, act)
  \/ whenOn
  \/ whenOff
  \/ whenConnected
  \/ whenDisconnected
  \/ reconnectTimerFires
  \/ pollTick
  \/ visibilityHidden
  \/ visibilityVisible
  \/ beforeUnload
  \/ \E d \in Devices : linkDrops(d)
  \/ \E d \in Devices, v \in NotifyTexts : notification(d, v)
  \/ \E i \in Slots, d \in Devices : scanResolves(i, d)
  \/ \E i \in Slots : scanRejects(i)
  \/ \E i \in Slots : connectResolves(i)
  \/ \E i \in Slots : connectRejects(i)
  \/ \E i \in Slots : setupResolves(i)
  \/ \E i \in Slots : setupRejects(i)
  \/ \E i \in Slots : writeResolves(i)
  \/ \E i \in Slots : writeRejects(i)

\* The whole extension.  Its state space is far beyond exhaustive search;
\* the specifications below are sub-systems of it (each next-state relation
\* is a part of Next's disjuncts over a part of the inputs).
Spec == Init /\ [][Next]_vars

\* At most n operations are suspended after the step.
InFlight(ts) == {i \in Slots : ts[i] # NoTask}
\* The connect button pressed while nothing else is in flight.
btnConnectIdle == InFlight(tasks) = {} /\ btnConnect
\* The connect button pressed while idle and disconnected.
btnConnectFresh == ~connected /\ btnConnectIdle
\* The disconnect block run while nothing is in flight.
disconnectIdle == InFlight(tasks) = {} /\ disconnect
\* connectById with the id of a remembered device.
connectByKnownId == \E id \in known : connectById(id)
\* bulkCsv run while nothing else is in flight.
bulkCsvIdle(ids, act) == InFlight(tasks) = {} /\ bulkCsv(ids, act)

\* ---- State tracker and HAT blocks: one device, a transport that succeeds,
\* one connect at a time.
NextState ==
  \/ btnConnectIdle
  \/ disconnect
  \/ forgetCurrent
  \/ whenOn
  \/ whenOff
  \/ whenConnected
  \/ whenDisconnected
  \/ \E v \in NotifyTexts : notification("a", v)
  \/ \E i \in Slots : scanResolves(i, "a")
  \/ \E i \in Slots : connectResolves(i)
  \/ \E i \in Slots : setupResolves(i)
  \/ linkDrops("a")
SpecState == Init /\ [][NextState]_vars

\* ---- Send queue: one device, sends of "1" and "0", drops, the reconnect
\* timer, failing transport calls.
NextQueue ==
  \/ btnConnect
  \/ \E on \in BOOLEAN : setReconnect(on)
  \/ \E str \in CmdTokens : relaySend(str)
  \/ clearQueue
  \/ reconnectTimerFires
  \/ linkDrops("a")
  \/ \E i \in Slots : scanResolves(i, "a")
  \/ \E i \in Slots : scanRejects(i)
  \/ \E i \in Slots : connectResolves(i)
  \/ \E i \in Slots : connectRejects(i)
  \/ \E i \in Slots : setupResolves(i)
  \/ \E i \in Slots : setupRejects(i)
  \/ \E i \in Slots : writeResolves(i)
  \/ \E i \in Slots : writeRejects(i)
SpecQueue == Init /\ [][NextQueue]_vars

\* ---- Reconnection: one device, connect by scan and by id (known or not),
\* disconnect, auto-reconnect on and off, failing transport calls.
NextRetry ==
  \/ btnConnect
  \/ \E id \in {"a", StrangerId} : connectById(id)
  \/ disconnect
  \/ \E on \in BOOLEAN : setReconnect(on)
  \/ reconnectTimerFires
  \/ linkDrops("a")
  \/ \E i \in Slots : scanResolves(i, "a")
  \/ \E i \in Slots : scanRejects(i)
  \/ \E i \in Slots : connectResolves(i)
  \/ \E i \in Slots : connectRejects(i)
  \/ \E i \in Slots : setupResolves(i)
  \/ \E i \in Slots : setupRejects(i)
SpecRetry == Init /\ [][NextRetry]_vars

\* ---- Cancellation: one device, the blocks and the teardown that turn
\* auto-reconnect off, failing transport calls.
NextCancel ==
  \/ btnConnect
  \/ disconnect
  \/ forgetCurrent
  \/ forgetById("a")
  \/ forgetAll
  \/ forgetAllClear
  \/ \E on \in BOOLEAN : setReconnect(on)
  \/ beforeUnload
  \/ reconnectTimerFires
  \/ linkDrops("a")
  \/ \E i \in Slots : scanResolves(i, "a")
  \/ \E i \in Slots : scanRejects(i)
  \/ \E i \in Slots : connectResolves(i)
  \/ \E i \in Slots : connectRejects(i)
  \/ \E i \in Slots : setupResolves(i)
  \/ \E i \in Slots : setupRejects(i)
SpecCancel == Init /\ [][NextCancel]_vars

\* ---- Several devices: each is remembered by a scan made while disconnected;
\* connect by a remembered id, bulk dispatch, disconnect.
BulkKnown == UNION {[1..n -> Devices] : n \in 1..MaxBulk}
NextMulti ==
  \/ btnConnectFresh
  \/ disconnectIdle
  \/ connectByKnownId
  \/ \E ids \in BulkKnown : bulkCsv(ids, "OFF")
  \/ \E i \in Slots, d \in Devices : scanResolves(i, d)
  \/ \E i \in Slots : connectResolves(i)
  \/ \E i \in Slots : setupResolves(i)
  \/ \E i \in Slots : writeResolves(i)
SpecMulti == Init /\ [][NextMulti]_vars

\* ---- Draining: as the send queue, with a transport that never fails and a
\* link that never drops.
NextDrain ==
  \/ btnConnectIdle
  \/ \E str \in CmdTokens : relaySend(str)
  \/ reconnectTimerFires
  \/ \E i \in Slots : scanResolves(i, "a")
  \/ \E i \in Slots : connectResolves(i)
  \/ \E i \in Slots : setupResolves(i)
  \/ \E i \in Slots : writeResolves(i)
SpecDrain == Init /\ [][NextDrain]_vars

\* ---- Sending: one device, a transport that succeeds, auto-reconnect on and
\* off, sends while connected and while not.
NextSend ==
  \/ btnConnectIdle
  \/ disconnect
  \/ \E on \in BOOLEAN : setReconnect(on)
  \/ \E str \in CmdTokens : relaySend(str)
  \/ reconnectTimerFires
  \/ linkDrops("a")
  \/ \E i \in Slots : scanResolves(i, "a")
  \/ \E i \in Slots : connectResolves(i)
  \/ \E i \in Slots : setupResolves(i)
  \/ \E i \in Slots : writeResolves(i)
SpecSend == Init /\ [][NextSend]_vars

\* ---- Forgetting: one device, a transport that succeeds, polling, state
\* notifications, sends, and the three ways to forget.
NextForget ==
  \/ btnConnectIdle
  \/ forgetCurrent
  \/ forgetById("a")
  \/ forgetAll
  \/ forgetAllClear
  \/ setPoll(PollMs)
  \/ relaySend("1")
  \/ notification("a", "on")
  \/ reconnectTimerFires
  \/ linkDrops("a")
  \/ \E i \in Slots : scanResolves(i, "a")
  \/ \E i \in Slots : connectResolves(i)
  \/ \E i \in Slots : setupResolves(i)
  \/ \E i \in Slots : writeResolves(i)
SpecForget == Init /\ [][NextForget]_vars

\* ---- Bulk dispatch: one operation at a time, each device remembered by a
\* scan made while disconnected, id lists with known and unknown ids,
\* gatt.connect() may fail.
NextBulk ==
  \/ btnConnectFresh
  \/ disconnectIdle
  \/ \E ids \in BulkLists : bulkCsvIdle(ids, "OFF")
  \/ \E i \in Slots, d \in Devices : scanResolves(i, d)
  \/ \E i \in Slots : connectResolves(i)
  \/ \E i \in Slots : connectRejects(i)
  \/ \E i \in Slots : setupResolves(i)
  \/ \E i \in Slots : writeResolves(i)
SpecBulk == Init /\ [][NextBulk]_vars

\* ---- Polling: one device, a transport that succeeds, the poll interval,
\* the page hidden and visible, drops, disconnect, forget and reconnection.
NextPoll ==
  \/ btnConnectIdle
  \/ disconnect
  \/ forgetCurrent
  \/ \E ms \in {0, PollMs} : setPoll(ms)
  \/ pollTick
  \/ visibilityHidden
  \/ visibilityVisible
  \/ reconnectTimerFires
  \/ linkDrops("a")
  \/ \E i \in Slots : scanResolves(i, "a")
  \/ \E i \in Slots : connectResolves(i)
  \/ \E i \in Slots : setupResolves(i)
  \/ \E i \in Slots : writeResolves(i)
SpecPoll == Init /\ [][NextPoll]_vars

\* ---- Registry: two devices, a transport that succeeds, connect by scan and
\* by a remembered id, the three ways to forget.
NextRegistry ==
  \/ btnConnectIdle
  \/ connectByKnownId
  \/ forgetCurrent
  \/ \E id \in Devices : forgetById(id)
  \/ forgetAll
  \/ forgetAllClear
  \/ \E i \in Slots, d \in Devices : scanResolves(i, d)
  \/ \E i \in Slots : connectResolves(i)
  \/ \E i \in Slots : setupResolves(i)
SpecRegistry == Init /\ [][NextRegistry]_vars

\* ---- Disconnect: one device, polling, state notifications, queued sends,
\* drops and failing reconnects, and the disconnect block.
NextDisconnect ==
  \/ btnConnectIdle
  \/ disconnect
  \/ setPoll(PollMs)
  \/ relaySend("1")
  \/ notification("a", "on")
  \/ reconnectTimerFires
  \/ linkDrops("a")
  \/ \E i \in Slots : scanResolves(i, "a")
  \/ \E i \in Slots : connectResolves(i)
  \/ \E i \in Slots : connectRejects(i)
  \/ \E i \in Slots : setupResolves(i)
  \/ \E i \in Slots : writeResolves(i)
SpecDisconnect == Init /\ [][NextDisconnect]_vars

\* ---- Teardown: one device, a transport that succeeds; the only operations
\* that set wantReconnect are connects, the only ones that clear it are the
\* intentional teardowns.
NextTeardown ==
  \/ btnConnectIdle
  \/ disconnect
  \/ forgetCurrent
  \/ forgetAll
  \/ forgetAllClear
  \/ reconnectTimerFires
  \/ linkDrops("a")
  \/ \E i \in Slots : scanResolves(i, "a")
  \/ \E i \in Slots : connectResolves(i)
  \/ \E i \in Slots : setupResolves(i)
SpecTeardown == Init /\ [][NextTeardown]_vars

\* ---- Stalling: one device, connect by scan, drops, the reconnect timer,
\* failing transport calls; auto-reconnect stays wanted once a connect was
\* asked for.
NextStall ==
  \/ btnConnectIdle
  \/ reconnectTimerFires
  \/ linkDrops("a")
  \/ \E i \in Slots : scanResolves(i, "a")
  \/ \E i \in Slots : scanRejects(i)
  \/ \E i \in Slots : connectResolves(i)
  \/ \E i \in Slots : connectRejects(i)
  \/ \E i \in Slots : setupResolves(i)
  \/ \E i \in Slots : setupRejects(i)
SpecStall == Init /\ [][NextStall]_vars

\* ------------------------------------------------------------- claims
\* Task i is suspended at the write of token s issued by the drain loop.
DrainWrite(ts, i, s) == ts[i].pc = "write" /\ ts[i].drain /\ ts[i].tok = s

\* C1: queued tokens are written to the transport one at a time, in the order
\* they were enqueued, when no write fails and the link does not drop: at most
\* one token taken from the send queue is in flight at the transport (each
\* write is awaited before the next token is taken).
C1_OneAtATime ==
  Cardinality({i \in Slots : tasks[i].pc = "write" /\ tasks[i].drain}) <= 1

\* C1, the order alone: a connection that completes while tokens are queued
\* writes the oldest token and removes it from the queue; when that write
\* succeeds and the link is still up, the same operation writes the token that
\* is now the oldest; and no step takes a token out of the queue in any other
\* way: a step leaves the queue alone, appends to it (evicting the oldest when
\* full), empties it, or removes its head by writing that head.
C1_DrainFifo ==
  [][/\ \A i \in Slots :
          /\ setupResolves(i) /\ tasks[i].pc = "notify" /\ txChar # None
             /\ sendQueue # << >> /\ rxChar # None
             => /\ DrainWrite(tasks', i, Head(sendQueue))
                /\ sendQueue' = Tail(sendQueue)
          /\ writeResolves(i) /\ tasks[i].drain
             /\ sendQueue # << >> /\ connected /\ rxChar # None
             => /\ DrainWrite(tasks', i, Head(sendQueue))
                /\ sendQueue' = Tail(sendQueue)
          /\ writeResolves(i) /\ tasks[i].drain /\ sendQueue = << >>
             => tasks'[i] = NoTask
     /\ \/ sendQueue' = sendQueue
        \/ \E s \in CmdTokens : sendQueue' = sendAsciiQueue(sendQueue, s)
        \/ sendQueue' = << >> /\ clearQueue
        \/ /\ sendQueue # << >> /\ sendQueue' = Tail(sendQueue)
           /\ \E i \in Slots : DrainWrite(tasks', i, Head(sendQueue))
    ]_vars

\* The last n elements of q (all of q when it has fewer).
LastN(q, n) == SubSeq(q, IF Len(q) > n THEN Len(q) - n + 1 ELSE 1, Len(q))
\* C2: drop-oldest bound.  The send queue never holds more than QUEUE_MAX
\* tokens, and a send made while disconnected with auto-reconnect enabled
\* leaves in the queue the last QUEUE_MAX tokens of the old queue followed by
\* the new token; so after QUEUE_MAX + k such sends it holds the most recent
\* QUEUE_MAX tokens in their order.
C2_DropOldest ==
  /\ [](Len(sendQueue) <= QUEUE_MAX)
  /\ [][\A str \in CmdTokens :
          relaySend(str) /\ ~connected /\ wantReconnect
            => sendQueue' = LastN(Append(sendQueue, str), QUEUE_MAX)]_vars
\* A send has just evicted the oldest token of a full queue: "1" was evicted
\* and the queue holds the two newer tokens.
C2_Witness ==
  /\ "sendAscii:shift" \in ev /\ ~connected /\ wantReconnect
  /\ sendQueue = <<"0", "1">>

\* Task i runs onConnected in this step: setupGatt's last await resolves.
Connects(i) == setupResolves(i) /\ tasks[i].pc = "notify" /\ txChar # None
\* An exception leaves the chain task i awaits in this step.
Fails(i) ==
  \/ scanRejects(i)
  \/ connectRejects(i)
  \/ setupRejects(i)
  \/ setupResolves(i) /\ tasks[i].pc = "notify" /\ txChar = None
\* A reconnect attempt fired by the reconnect timer fails in this step: in
\* flight (task i), or at once because there is no device.
TimerAttemptFails ==
  \/ \E i \in Slots : tasks[i].op = "timer" /\ Fails(i)
  \/ reconnectTimerFires /\ device = None
BackoffValues == {1000, 2000, 4000, 8000, 15000}

\* C3 (as stated): every reconnect attempt fired by the reconnect timer that
\* fails sets backoffMs to min(2 * backoffMs, 15000) and reschedules the timer.
C3_FailureReschedules ==
  [][TimerAttemptFails
       => backoffMs' = Min(2 * backoffMs, 15000) /\ reconnectTimer']_vars

\* C3 (amended): every reconnect attempt fired by the reconnect timer that
\* fails sets backoffMs to min(2 * backoffMs, 15000) and, if auto-reconnect is
\* still wanted, leaves a reconnect timer pending; every successful connection
\* resets backoffMs to 1000; backoffMs is always one of 1000, 2000, 4000, 8000,
\* 15000 and decreases only at a successful connection.
C3_Backoff ==
  /\ [](backoffMs \in BackoffValues)
  /\ [][/\ TimerAttemptFails
           => /\ backoffMs' = Min(2 * backoffMs, 15000)
              /\ (wantReconnect => reconnectTimer')
        /\ (\E i \in Slots : Connects(i)) => backoffMs' = 1000
        /\ backoffMs' < backoffMs
           => backoffMs' = 1000 /\ connected' /\ \E i \in Slots : Connects(i)
       ]_vars
\* Consecutive failed connects have driven the delay to its ceiling and the
\* next attempt is scheduled.
C3_Witness ==
  /\ backoffMs = 15000 /\ reconnectTimer /\ wantReconnect
  /\ device # None /\ lastError = ErrConnect

\* Number of gatt.connect() calls in flight.
ConnectsInFlight(ts) == Cardinality({i \in Slots : ts[i].pc = "connect"})
\* reconnect() is called in this step.
CallsReconnect == reconnectTimerFires \/ connectByKnownId
\* C4: reconnect() is idempotent while pending.  When reconnect() has just
\* issued its gatt.connect() and reconnect() is called again as the very next
\* operation, the second call issues no connect: the first call's connect is
\* in flight, the second call returns at once and suspends nothing.
C4_ReconnectOnce ==
  [][("reconnect:connect" \in ev /\ CallsReconnect)
       => /\ \E i \in Slots : tasks[i].via = "rec" /\ tasks[i].pc = "connect"
          /\ "reconnect:connect" \notin ev' /\ "reconnect:return" \in ev'
          /\ tasks' = tasks
          /\ ConnectsInFlight(tasks') = ConnectsInFlight(tasks)]_vars
\* A second reconnect() has returned while the first is still awaiting its
\* connect: the flag is up and one connect is in flight.
C4_Witness ==
  /\ "reconnect:return" \in ev /\ connecting
  /\ ConnectsInFlight(tasks) = 1
  /\ \E i \in Slots : tasks[i].via = "rec" /\ tasks[i].pc = "connect"

\* The numeric state a payload decodes to, given the stored one.
Decoded(v, stored) ==
  IF v \in {"on", "1"} THEN 1 ELSE IF v \in {"off", "0"} THEN 0 ELSE stored
\* C5: a notification raises stateRose (edgeOn) iff the stored numeric state
\* was 0 and the payload decodes to 1, and stateFell (edgeOff) iff it was 1 and
\* the payload decodes to 0; it stores the payload and the decoded state; an
\* unrecognized payload leaves the numeric state and both flags as they were,
\* and so does a payload equal to the stored one.
C5_Edges ==
  [][\A v \in NotifyTexts :
       notification("a", v)
         => LET num == Decoded(v, lastStateNum)
            IN /\ lastStateText' = v /\ lastStateNum' = num
               /\ edgeOn' = (edgeOn \/ (lastStateNum = 0 /\ num = 1))
               /\ edgeOff' = (edgeOff \/ (lastStateNum = 1 /\ num = 0))
               /\ (v = "?" \/ v = lastStateText)
                    => /\ lastStateNum' = lastStateNum
                       /\ edgeOn' = edgeOn /\ edgeOff' = edgeOff]_vars
\* The state rose, fell, and an unrecognized payload then changed the text
\* alone.
C5_Witness ==
  /\ edgeOn /\ edgeOff /\ lastStateText = "?" /\ lastStateNum = 0

\* C6: each edge query returns true iff its flag is set and clears the flag;
\* called again as the very next operation it returns false.
C6_ConsumeOnce ==
  [][/\ whenOn
          => /\ ev' = {IF edgeOn THEN "whenOn:T" ELSE "whenOn:F"}
             /\ ~edgeOn' /\ ("whenOn:T" \in ev => "whenOn:F" \in ev')
     /\ whenOff
          => /\ ev' = {IF edgeOff THEN "whenOff:T" ELSE "whenOff:F"}
             /\ ~edgeOff' /\ ("whenOff:T" \in ev => "whenOff:F" \in ev')
     /\ whenConnected
          => /\ ev' = {IF edgeConnected THEN "whenConnected:T"
                       ELSE "whenConnected:F"}
             /\ ~edgeConnected'
             /\ ("whenConnected:T" \in ev => "whenConnected:F" \in ev')
     /\ whenDisconnected
          => /\ ev' = {IF edgeDisconnected THEN "whenDisconnected:T"
                       ELSE "whenDisconnected:F"}
             /\ ~edgeDisconnected'
             /\ ("whenDisconnected:T" \in ev => "whenDisconnected:F" \in ev')
    ]_vars
\* whenConnected has just reported a connection and consumed the flag.
C6_Witness ==
  /\ "whenConnected:T" \in ev /\ ~edgeConnected /\ connected

\* C7: while auto-reconnect is not wanted no reconnect timer is pending.
C7_NoOrphanTimer == ~wantReconnect => ~reconnectTimer
\* Auto-reconnect was turned off while a reconnect attempt fired by the timer
\* was awaiting its connect: no timer is pending.
C7_Witness ==
  /\ ~wantReconnect /\ ~reconnectTimer
  /\ \E i \in Slots : tasks[i].op = "timer" /\ tasks[i].pc = "connect"

\* C8: single link.  At most one remembered device has a live transport
\* session, and while the link is logically connected that session is the
\* active device's.
C8_SingleLink ==
  /\ Cardinality({d \in known : gatt[d]}) <= 1
  /\ connected => device # None /\ gatt[device]

\* C9: transport operations are serialized.  At most one transport operation
\* (a connect with its protocol setup, or a write) is in flight.
C9_Serialized ==
  Cardinality({i \in Slots :
                 tasks[i].pc \in {"connect", "rx", "tx", "notify", "write"}})
    <= 1

\* C10: when a connect attempt started by btnConnect or by connectById (its
\* fallback scan included) fails and the operation returns its failure, the
\* error is recorded and, auto-reconnect being wanted, a reconnect timer is
\* pending.
C10_FailureSchedules ==
  [][\A i \in Slots :
       (/\ tasks[i].op \in {"btnConnect", "connectById"}
        /\ Fails(i) /\ tasks'[i] = NoTask /\ wantReconnect)
         => lastError' # "" /\ reconnectTimer']_vars

\* C11: a send made while not connected and with auto-reconnect not wanted
\* fails at once with the NotConnected error: the block records the message
\* in lastError and rethrows, nothing is suspended or written, and the send
\* queue, the reconnect timer and the link state are left as they were.
C11_NotConnected ==
  [][\A str \in CmdTokens :
       (relaySend(str) /\ ~connected /\ ~wantReconnect)
         => /\ "send:throw" \in ev' /\ lastError' = ErrNotConnected
            /\ tasks' = tasks /\ wq' = wq
            /\ UNCHANGED <<sendQueue, reconnectTimer, wantReconnect, connected,
                           connecting, device, rxChar, txChar, gatt, subs,
                           backoffMs, known>>]_vars
\* A send has just failed while tokens queued earlier are still in the queue.
C11_Witness ==
  /\ "send:throw" \in ev /\ lastError = ErrNotConnected
  /\ ~connected /\ ~wantReconnect /\ ~reconnectTimer
  /\ sendQueue # << >>

\* C12: forgetById with the id of the active device, while connected, tears
\* the link down (connected and wantReconnect false, the session ended, the
\* reconnect timer and the poll timer cancelled), removes the id from the
\* registry, clears the active device and resets the state record to numeric
\* 0 and text "".
C12_ForgetActive ==
  [][\A id \in Devices :
       (forgetById(id) /\ device = id /\ connected)
         => /\ ~connected' /\ ~wantReconnect' /\ ~gatt'[id]
            /\ rxChar' = None /\ txChar' = None
            /\ ~reconnectTimer' /\ ~pollTimer'
            /\ id \notin known' /\ device' = None
            /\ lastStateNum' = 0 /\ prevStateNum' = 0
            /\ lastStateText' = ""]_vars
\* forgetById has just forgotten the active device, which had reported "on"
\* and was being polled.
C12_Witness ==
  /\ "forgetById:forgetCurrent" \in ev /\ edgeOn /\ edgeDisconnected
  /\ pollIntervalMs = PollMs /\ ~pollTimer
  /\ device = None /\ lastStateNum = 0 /\ lastStateText = ""

\* A remembered active device is forgotten in this step: by forgetCurrent, by
\* forgetById with its id, or by forgetAll (up to its await).
ForgetsActive ==
  /\ device # None
  /\ forgetCurrent \/ forgetById(device) \/ forgetAll
\* C13: the send queue is cleared on forget-device.  When forgetCurrent,
\* forgetById of the active device or forgetAll has forgotten the active
\* device, the send queue is empty.
C13_ForgetClearsQueue ==
  [][ForgetsActive => sendQueue' = << >>]_vars

\* C14: bulk dispatch delivers per id.  The write that bulkCsv issues for an
\* id of its list carries the action's token and goes to that id's own
\* device.
C14_BulkOwnDevice ==
  \A i \in Slots :
    (tasks[i].op = "bulk" /\ tasks[i].pc = "write" /\ ~tasks[i].drain)
      => /\ tasks[i].tok = ActToken(tasks[i].act)
         /\ tasks[i].dev = Head(tasks[i].ids)

\* C15: after bulkCsv returns, lastError holds the message of the final per-id
\* failure of that run: it names the last id that failed, also when ids
\* processed after it succeeded.
C15_LastErrorNamesFailure ==
  \A id \in Ids :
    ("bulkCsv:failed:" \o id) \in ev => lastError = IdErr(id)

\* C16: polling is suspended while the host is hidden.  From a visibility
\* change to hidden until the next change to visible no poll timer is active
\* (so no poll tick issues a state read), whatever happens in between.
C16_HiddenNoPolling == hidden => ~pollTimer

\* C17: the active device never dangles.  Whenever an active device is set,
\* the registry has an entry for its id.
C17_ActiveIsKnown == device # None => device \in known

\* Task i is connectById's first requestAndConnect(), the one made because the
\* id is not in the registry (the fallback after a failed reconnect has fb).
ScanForUnknownId(i) ==
  tasks[i].op = "connectById" /\ tasks[i].via = "rac" /\ ~tasks[i].fb
\* C18: connectById with an id that is not in the registry surfaces no
\* unknown-device error and falls back to one scan-and-connect: the operation
\* succeeds iff that scan-and-connect succeeds, so when it fails the
\* operation returns the failure; with an id that is in the registry it makes
\* that device active and calls reconnect().
C18_FallbackToScan ==
  [][/\ \A id \in Ids :
          connectById(id)
            => IF id \in known
                 THEN /\ device' = id
                      /\ \/ "reconnect:connect" \in ev'
                         \/ "reconnect:return" \in ev'
                 ELSE /\ lastError' = ""
                      /\ \E i \in Slots :
                           /\ tasks[i] = NoTask /\ tasks'[i].pc = "scan"
                           /\ tasks'[i].op = "connectById"
     /\ \A i \in Slots :
          /\ (ScanForUnknownId(i) /\ Fails(i))
               => tasks'[i] = NoTask /\ lastError' # ""
          /\ (ScanForUnknownId(i) /\ Connects(i))
               => connected' /\ lastError' = ""
    ]_vars

\* C19: queue draining stops at the first write failure.  When a write issued
\* by the drain fails, the error is recorded in lastError, the failed token is
\* not put back, that drain writes no further token (the operation that ran
\* it ends), and the tokens behind the failed one stay in the queue in their
\* order.
C19_DrainStops ==
  [][\A i \in Slots :
       (writeRejects(i) /\ tasks[i].drain)
         => /\ lastError' = ErrWrite
            /\ sendQueue' = sendQueue
            /\ tasks'[i] = NoTask
            /\ i \notin {wq'[k] : k \in 1..Len(wq')}]_vars
\* A drain has stopped at a failed write with a token still queued behind it:
\* the link is up, nothing is in flight, the token waits.
C19_Witness ==
  /\ lastError = ErrWrite /\ connected /\ sendQueue # << >>
  /\ InFlight(tasks) = {}

\* C20: connection edges follow logical connectedness.  A step raises
\* connectionEstablished (edgeConnected) exactly when `connected` goes from
\* false to true and connectionLost (edgeDisconnected) exactly when it goes
\* from true to false; a connect completing while connected, and a drop or a
\* disconnect while disconnected, raise neither; prevConnected equals
\* connected in every reachable state.
C20_ConnectionEdges ==
  /\ [](prevConnected = connected)
  /\ [][/\ (~connected /\ connected') => edgeConnected'
        /\ (connected /\ ~connected') => edgeDisconnected'
        /\ (~edgeConnected /\ edgeConnected') => (~connected /\ connected')
        /\ (~edgeDisconnected /\ edgeDisconnected')
             => (connected /\ ~connected')
        /\ (\E i \in Slots : Connects(i) /\ connected)
             => edgeConnected' = edgeConnected
        /\ ((linkDrops("a") \/ disconnect) /\ ~connected)
             => edgeDisconnected' = edgeDisconnected
       ]_vars
\* The link came up and was lost, and neither edge has been read: each
\* transition raised its flag, and both flags of `connected` agree.
C20_Witness ==
  /\ edgeConnected /\ edgeDisconnected
  /\ ~connected /\ ~prevConnected /\ ~gatt["a"]

\* C21: a poll timer is active only while the link is logically connected and
\* the poll interval is greater than 0.  setPoll(0) stops polling; setPoll(ms)
\* while disconnected starts no timer and stores the interval; the next
\* successful connection starts the timer if the interval is positive; every
\* step that takes `connected` from true to false stops the timer.
C21_PollOnlyConnected ==
  /\ [](pollTimer => connected /\ pollIntervalMs > 0)
  /\ [][/\ setPoll(0) => ~pollTimer' /\ pollIntervalMs' = 0
        /\ \A ms \in {0, PollMs} :
             (setPoll(ms) /\ ~connected)
               => ~pollTimer' /\ pollIntervalMs' = ms
        /\ (\E i \in Slots : Connects(i))
             => pollTimer' = (pollIntervalMs > 0)
        /\ (connected /\ ~connected') => ~pollTimer'
       ]_vars
\* An interval was stored while disconnected and no timer started; the link
\* had been polled before and was lost.
C21_Witness ==
  /\ ~connected /\ pollIntervalMs = PollMs /\ ~pollTimer
  /\ edgeDisconnected /\ device # None /\ ~hidden

\* C22: disconnect() keeps the memory.  It turns auto-reconnect off, cancels
\* the reconnect timer, ends the session, marks the link disconnected and
\* stops polling, and leaves unchanged the registry, the active device, the
\* state record, the send queue, the poll interval and backoffMs.
C22_DisconnectKeeps ==
  [][disconnect
       => /\ ~wantReconnect' /\ ~reconnectTimer'
          /\ ~connected' /\ ~pollTimer'
          /\ rxChar' = None /\ txChar' = None
          /\ device # None => ~gatt'[device]
          /\ UNCHANGED <<known, device, lastStateNum, lastStateText,
                         prevStateNum, sendQueue, pollIntervalMs, backoffMs>>
    ]_vars
\* After disconnect(): the device is still active and remembered, its last
\* state, the queued token, the poll interval and the raised backoff are
\* all still there.
C22_Witness ==
  /\ ~wantReconnect /\ ~reconnectTimer /\ ~connected /\ ~pollTimer
  /\ device = "a" /\ "a" \in known /\ ~gatt["a"]
  /\ lastStateNum = 1 /\ lastStateText = "on" /\ sendQueue = <<"1">>
  /\ pollIntervalMs = PollMs /\ backoffMs > backoffFloor

\* C23: intentional teardown is final.  Once disconnect(), forgetCurrent() or
\* forgetAll() has run and until the caller issues a new connect (here
\* wantReconnect is false exactly in that interval), the link is not
\* logically connected, also when a connect that was in flight at the
\* teardown completes afterwards.
C23_TeardownFinal == ~wantReconnect => ~connected

\* A connect attempt is in flight: a task awaits requestDevice, gatt.connect
\* or a step of setupGatt.
AttemptInFlight ==
  \E i \in Slots : tasks[i].pc \in {"scan", "connect", "rx", "tx", "notify"}
\* C24: reconnection never stalls.  While auto-reconnect is wanted and an
\* active device is remembered, whenever the link is not logically connected
\* a reconnect timer is pending or a connect attempt is in flight.
C24_NeverStalls ==
  (wantReconnect /\ device # None /\ device \in known /\ ~connected)
    => (reconnectTimer \/ AttemptInFlight)

\* C25: no overtaking.  A token passed to send or sent by a poll tick is not
\* handed to the transport while tokens placed in the send queue before it
\* are still queued: every write issued outside the drain loop finds the
\* queue empty.
C25_NoOvertaking ==
  [][\A i \in Slots :
       (tasks[i].pc # "write" /\ tasks'[i].pc = "write" /\ ~tasks'[i].drain)
         => sendQueue = << >>]_vars
====
